---- MODULE Spec2Model ----
(***************************************************************************)
(* A model of the MLModels tool chain of the Translate repository:         *)
(*   update_registry.py          the registry.json upsert                  *)
(*   convert_opus_to_coreml.py   the encoder/decoder (batch) converter     *)
(*   convert_gemma_to_coreml.py  the causal (single model) converter       *)
(*   test_conversion.py          the artifact validator                    *)
(* One run of one script is one behaviour: prog says which script runs.    *)
(***************************************************************************)
EXTENDS Integers, Sequences, FiniteSets, TLC

VARIABLES
    prog,            \* which script this behaviour runs
    \* ---- update_registry.py ----
    file,            \* dist/registry.json as it is on disk
    today,           \* datetime.now(), as a day number
    pc,              \* position inside update_registry ("idle" between calls)
    model_metadata,  \* the argument of the current (or last) call
    registry,        \* the local variable registry
    outcome,         \* how the last call ended
    before,          \* the file as the current (or last) call read it
    prev,            \* the last call before this one: its entry and result
    everIds,         \* ids persisted by some completed call (history)
    interrupted,     \* some write was interrupted (history)
    observed,        \* what a concurrent reader last saw of the file
    writer2,         \* a second process inside update_registry: its locals
    \* ---- the converters and the validator ----
    args,            \* the parsed command line
    stage,           \* the statement the script is at
    models_to_convert, \* convert_opus: the batch
    loop_i,          \* convert_opus: index (from 1) of the loop's model
    attempts,        \* convert_opus: the models the loop has started on
    reports,         \* convert_opus: the per-model lines printed
    ran,             \* the stages run so far (convert_opus: for this model)
    raised,          \* <<loop_i, stage>> for every stage that raised
    exitCode,        \* the process's exit status, once it has ended
    disk,            \* the artifacts saved
    inputs,          \* the input descriptors of the last ct.convert call
    probe,           \* test_conversion: the compute-unit results
    tests            \* test_conversion: <<tests_passed, tests_total>>

regVars == <<file, today, pc, model_metadata, registry, outcome, before, prev,
             everIds, interrupted, observed, writer2>>

cliVars == <<args, stage, models_to_convert, loop_i, attempts, reports, ran, raised,
             exitCode, disk, inputs, probe, tests>>

vars == <<prog, regVars, cliVars>>

None == "None"

\* No call has set the variable yet.
NoEntry == [id |-> "none", version |-> "none"]
NoRegistry == [models |-> <<>>, lastUpdated |-> -1]
NoSnapshot == [kind |-> "none", models |-> <<>>]
NoPrev == [entry |-> NoEntry, outcome |-> "none", models |-> <<>>,
           lastUpdated |-> -1]

\* The second process has not called update_registry. atRead, atOpen and
\* atClose are history: where the first process was at that moment.
W2Idle == [pc |-> "idle", model_metadata |-> NoEntry, registry |-> NoRegistry,
           outcome |-> None, before |-> NoSnapshot,
           atRead |-> "none", atOpen |-> "none", atClose |-> "none"]

-----------------------------------------------------------------------------
(* Bounds of the model *)

\* The longest models list of a registry.json that the calls start from
MaxFileLen == 2

\* datetime.now() takes the days 1..MaxDay
MaxDay == 2

-----------------------------------------------------------------------------
(* update_registry.py *)

Ids == {"en-es", "es-en", "en-ja"}

\* The "id" of a metadata object that carries no "id" key.
NoId == "no-id"

Versions == {"1.0.0", "2.0.0"}

\* json.loads(sys.argv[1]): any object; "version" stands for the other fields.
Entries == [id : Ids \cup {NoId}, version : Versions]

\* What is on disk that is not a registry document.
AbsentFile == [kind |-> "absent", models |-> <<>>, lastUpdated |-> 0]

\* open(path, "w") has truncated the file and nothing is written yet.
EmptyFile == [kind |-> "empty", models |-> <<>>, lastUpdated |-> 0]

\* A proper prefix of the text json.dump writes.
PartialFile == [kind |-> "partial", models |-> <<>>, lastUpdated |-> 0]

\* JSON that parses and is not an object with a "models" list of objects:
\* {}, [], {"models": 5}, {"models": ["x"]}.
OtherFile == [kind |-> "other", models |-> <<>>, lastUpdated |-> 0]

\* A document with bytes of a longer document left after its end:
\* json.load raises JSONDecodeError (extra data).
TornFile == [kind |-> "torn", models |-> <<>>, lastUpdated |-> 0]

DocFile(reg) ==
    [kind |-> "doc", models |-> reg.models, lastUpdated |-> reg.lastUpdated]

\* {"models": [], "lastUpdated": ""}
EmptyRegistry == [models |-> <<>>, lastUpdated |-> 0]

\* What json.load returns for such a file: indexing it by "models", or its
\* elements by "id", raises KeyError or TypeError.
NotARegistry == [models |-> <<>>, lastUpdated |-> -2]

\* json.load raises JSONDecodeError on an empty file and on a proper prefix
\* of a JSON object.
Parseable(f) == f.kind = "doc"

\* A plausible bug: the file is never read, every call starts a new registry.
ReadRegistryIgnoresFile(f) == EmptyRegistry

\* Lines 10-17: the registry read from disk; a missing file and a
\* JSONDecodeError both give the empty registry.
ReadRegistry(f) ==
    IF f.kind = "absent" THEN EmptyRegistry
    ELSE IF Parseable(f) THEN [models |-> f.models, lastUpdated |-> f.lastUpdated]
    ELSE IF f.kind = "other" THEN NotARegistry
    ELSE EmptyRegistry

\* Results of the scan that are not an index.
NotFound == -1
KeyErr == -2

\* Lines 20-24: the index (from 0) of the first model whose id is that of e;
\* model["id"] and model_metadata["id"] raise KeyError when the key is missing.
RECURSIVE Scan(_, _, _)
Scan(models, e, i) ==
    IF i >= Len(models) THEN NotFound
    ELSE IF models[i + 1].id = NoId THEN KeyErr
    ELSE IF e.id = NoId THEN KeyErr
    ELSE IF models[i + 1].id = e.id THEN i
    ELSE Scan(models, e, i + 1)

\* A plausible bug: the scan never finds a match.
ScanNeverMatches(models, e) == NotFound

\* A plausible bug: no break, so the last match wins.
ScanLastMatch(models, e) ==
    LET matches == {i \in DOMAIN models : models[i].id = e.id} IN
    IF matches = {} THEN NotFound
    ELSE (CHOOSE i \in matches : \A j \in matches : j <= i) - 1

existing_model_idx(models, e) == Scan(models, e, 0)

\* A plausible bug: the old entry's fields survive the replacement.
UpsertKeepsOld(models, e, idx) ==
    IF idx >= 0 THEN models ELSE Append(models, e)

\* A plausible bug: the entry is appended whether or not its id was found.
UpsertAlwaysAppends(models, e, idx) == Append(models, e)

\* A plausible bug: a new id starts a new list.
UpsertDropsOthers(models, e, idx) ==
    IF idx >= 0 THEN [models EXCEPT ![idx + 1] = e] ELSE <<e>>

\* Lines 26-29: replace in place, else append.
Upsert(models, e, idx) ==
    IF idx >= 0
    THEN [models EXCEPT ![idx + 1] = e]
    ELSE Append(models, e)

\* A plausible bug: no except clause around json.load.
ReadRaisesStrict(f) == f.kind \notin {"absent", "doc"}

\* Lines 12-15: json.load's JSONDecodeError is caught, so the read never raises.
ReadRaises(f) == FALSE

\* Lines 33-34: the text is written from offset 0 of a file this process
\* truncated when it opened it. If another process has written the file since
\* then, the bytes beyond the end of this text stay: the result is this
\* document when its text is at least as long, a torn file otherwise.
WrittenOver(f, reg) ==
    IF f.kind \in {"doc", "torn"}
    THEN {DocFile(reg), TornFile}
    ELSE {DocFile(reg)}

IdsOf(models) == {models[i].id : i \in DOMAIN models} \ {NoId}

RegInit ==
    /\ file \in {AbsentFile, EmptyFile}
    /\ today = 1
    /\ pc = "idle"
    /\ model_metadata = NoEntry
    /\ registry = NoRegistry
    /\ outcome = None
    /\ before = NoSnapshot
    /\ prev = NoPrev
    /\ everIds = {}
    /\ interrupted = FALSE
    /\ observed = None
    /\ writer2 = W2Idle

\* update_registry(e) is called.
Call(e) ==
    /\ prog = "update_registry"
    /\ pc = "idle"
    /\ pc' = "read"
    /\ model_metadata' = e
    /\ prev' = IF outcome \in {"ok", "raised"} /\ file.kind = "doc"
               THEN [entry |-> model_metadata, outcome |-> outcome,
                     models |-> file.models, lastUpdated |-> file.lastUpdated]
               ELSE NoPrev
    /\ outcome' = None
    /\ registry' = NoRegistry
    /\ before' = NoSnapshot
    /\ UNCHANGED <<cliVars, prog, writer2, file, today, everIds, interrupted, observed>>

\* Lines 10-17.
Read ==
    /\ prog = "update_registry"
    /\ pc = "read"
    /\ before' = [kind |-> file.kind, models |-> file.models]
    /\ IF ReadRaises(file)
       THEN /\ pc' = "idle"
            /\ outcome' = "raised"
            /\ UNCHANGED registry
       ELSE /\ pc' = "update"
            /\ registry' = ReadRegistry(file)
            /\ UNCHANGED outcome
    /\ UNCHANGED <<cliVars, prog, writer2, file, today, model_metadata, prev, everIds,
                   interrupted, observed>>

\* Lines 19-31: the scan, the replacement or the append, and lastUpdated.
Update ==
    /\ prog = "update_registry"
    /\ pc = "update"
    /\ LET idx == existing_model_idx(registry.models, model_metadata) IN
       IF registry = NotARegistry \/ idx = KeyErr
       THEN /\ pc' = "idle"
            /\ outcome' = "raised"
            /\ UNCHANGED registry
       ELSE /\ pc' = "open"
            /\ registry' = [models |-> Upsert(registry.models, model_metadata, idx),
                            lastUpdated |-> today]
            /\ UNCHANGED outcome
    /\ UNCHANGED <<cliVars, prog, writer2, file, today, model_metadata, before, prev, everIds,
                   interrupted, observed>>

\* Line 33: open(registry_path, "w") creates or truncates the file.
OpenForWrite ==
    /\ prog = "update_registry"
    /\ pc = "open"
    /\ file' = EmptyFile
    /\ pc' = "dump"
    /\ UNCHANGED <<cliVars, prog, writer2, today, model_metadata, registry, outcome, before, prev,
                   everIds, interrupted, observed>>

\* Line 34: json.dump writes the document chunk by chunk; a full buffer is
\* flushed before the last chunk is written.
WriteChunk ==
    /\ prog = "update_registry"
    /\ pc = "dump"
    /\ file.kind = "empty"
    /\ file' = PartialFile
    /\ UNCHANGED <<cliVars, prog, writer2, today, pc, model_metadata, registry, outcome, before,
                   prev, everIds, interrupted, observed>>

\* Lines 34-36: the rest of the document is written, the file is closed and
\* the call returns.
Close ==
    /\ prog = "update_registry"
    /\ pc = "dump"
    /\ file' \in WrittenOver(file, registry)
    /\ pc' = "idle"
    /\ outcome' = "ok"
    /\ everIds' = everIds \cup IdsOf(registry.models)
    /\ UNCHANGED <<cliVars, prog, writer2, today, model_metadata, registry, before, prev,
                   interrupted, observed>>

\* The process is killed between line 33 and the end of line 34: the file
\* stays as it is on disk.
Interrupt ==
    /\ prog = "update_registry"
    /\ pc = "dump"
    /\ pc' = "idle"
    /\ outcome' = "killed"
    /\ interrupted' = TRUE
    /\ UNCHANGED <<cliVars, prog, writer2, file, today, model_metadata, registry, before, prev,
                   everIds, observed>>

\* datetime.now() moves on to the next day.
Tick ==
    /\ prog = "update_registry"
    /\ today < MaxDay
    /\ today' = today + 1
    /\ UNCHANGED <<cliVars, prog, writer2, file, pc, model_metadata, registry, outcome, before,
                   prev, everIds, interrupted, observed>>

\* Another process reads registry.json.
ReaderObserve ==
    /\ prog = "update_registry"
    /\ observed' = file.kind
    /\ UNCHANGED <<cliVars, prog, writer2, file, today, pc, model_metadata, registry, outcome,
                   before, prev, everIds, interrupted>>

RegistryNext ==
    \/ \E e \in Entries : Call(e)
    \/ Read
    \/ Update
    \/ OpenForWrite
    \/ WriteChunk
    \/ Close
    \/ Interrupt
    \/ Tick

\* The converters and the validator are not running.
CliIdle ==
    /\ args = None
    /\ stage = "none"
    /\ models_to_convert = <<>>
    /\ loop_i = 0
    /\ attempts = <<>>
    /\ reports = <<>>
    /\ ran = <<>>
    /\ raised = {}
    /\ exitCode = None
    /\ disk = {}
    /\ inputs = <<>>
    /\ probe = <<>>
    /\ tests = <<0, 0>>

InitRegistry ==
    /\ prog = "update_registry"
    /\ RegInit
    /\ CliIdle

\* Sequential calls of update_registry, some of them interrupted.
SpecRegistry == InitRegistry /\ [][RegistryNext]_vars

\* The models lists of the registry documents a call may find on disk,
\* written by earlier runs or by hand: ids may repeat or be missing.
ModelLists == UNION {[1..n -> Entries] : n \in 0..MaxFileLen}

\* Whatever registry.json may hold when update_registry is called.
AnyFiles ==
    {AbsentFile, EmptyFile, PartialFile, OtherFile}
        \cup {DocFile([models |-> m, lastUpdated |-> 1]) : m \in ModelLists}

InitAnyFile ==
    /\ prog = "update_registry"
    /\ file \in AnyFiles
    /\ today = 1
    /\ pc = "idle"
    /\ model_metadata = NoEntry
    /\ registry = NoRegistry
    /\ outcome = None
    /\ before = NoSnapshot
    /\ prev = NoPrev
    /\ everIds = {}
    /\ interrupted = FALSE
    /\ observed = None
    /\ writer2 = W2Idle
    /\ CliIdle

\* The one call of the run.
FirstCall(e) ==
    /\ outcome = None
    /\ model_metadata = NoEntry
    /\ Call(e)

OneCallNext ==
    \/ \E e \in Entries : FirstCall(e)
    \/ Read
    \/ Update
    \/ OpenForWrite
    \/ WriteChunk
    \/ Close

\* One call of update_registry on whatever registry.json holds.
SpecAnyFile == InitAnyFile /\ [][OneCallNext]_vars

\* Where the first process is: it has not called yet, it is at a statement,
\* or its call has ended.
Phase1 ==
    IF pc # "idle" THEN pc
    ELSE IF outcome = None THEN "new" ELSE "done"

\* The second process calls update_registry(e), once.
W2_Call(e) ==
    /\ prog = "update_registry"
    /\ writer2.pc = "idle"
    /\ writer2.outcome = None
    /\ writer2' = [writer2 EXCEPT !.pc = "read", !.model_metadata = e]
    /\ UNCHANGED <<cliVars, prog, file, today, pc, model_metadata, registry, outcome,
                   before, prev, everIds, interrupted, observed>>

\* Lines 10-17, in the second process.
W2_Read ==
    /\ prog = "update_registry"
    /\ writer2.pc = "read"
    /\ writer2' = [writer2 EXCEPT !.pc = "update",
                                  !.before = [kind |-> file.kind, models |-> file.models],
                                  !.registry = ReadRegistry(file),
                                  !.atRead = Phase1]
    /\ UNCHANGED <<cliVars, prog, file, today, pc, model_metadata, registry, outcome,
                   before, prev, everIds, interrupted, observed>>

\* Lines 19-31, in the second process.
W2_Update ==
    /\ prog = "update_registry"
    /\ writer2.pc = "update"
    /\ LET idx == existing_model_idx(writer2.registry.models, writer2.model_metadata) IN
       IF writer2.registry = NotARegistry \/ idx = KeyErr
       THEN writer2' = [writer2 EXCEPT !.pc = "idle", !.outcome = "raised"]
       ELSE writer2' = [writer2 EXCEPT
                !.pc = "open",
                !.registry = [models |-> Upsert(writer2.registry.models,
                                                writer2.model_metadata, idx),
                              lastUpdated |-> today]]
    /\ UNCHANGED <<cliVars, prog, file, today, pc, model_metadata, registry, outcome,
                   before, prev, everIds, interrupted, observed>>

\* Line 33, in the second process.
W2_OpenForWrite ==
    /\ prog = "update_registry"
    /\ writer2.pc = "open"
    /\ file' = EmptyFile
    /\ writer2' = [writer2 EXCEPT !.pc = "dump", !.atOpen = Phase1]
    /\ UNCHANGED <<cliVars, prog, today, pc, model_metadata, registry, outcome,
                   before, prev, everIds, interrupted, observed>>

\* Lines 34-36, in the second process.
W2_Close ==
    /\ prog = "update_registry"
    /\ writer2.pc = "dump"
    /\ file' \in WrittenOver(file, writer2.registry)
    /\ writer2' = [writer2 EXCEPT !.pc = "idle", !.outcome = "ok", !.atClose = Phase1]
    /\ UNCHANGED <<cliVars, prog, today, pc, model_metadata, registry, outcome,
                   before, prev, everIds, interrupted, observed>>

\* Two processes, one call each, with no lock between them. The documents
\* are short enough for json.dump's text to be written in one piece.
ConcurrentNext ==
    \/ \E e \in Entries : FirstCall(e)
    \/ Read
    \/ Update
    \/ OpenForWrite
    \/ Close
    \/ \E e \in Entries : W2_Call(e)
    \/ W2_Read
    \/ W2_Update
    \/ W2_OpenForWrite
    \/ W2_Close

SpecConcurrent == InitAnyFile /\ [][ConcurrentNext]_vars

AtomicNext ==
    \/ \E e \in Entries : Call(e)
    \/ Read
    \/ Update
    \/ OpenForWrite
    \/ WriteChunk
    \/ Close
    \/ Tick
    \/ ReaderObserve

InitAtomic ==
    /\ prog = "update_registry"
    /\ RegInit
    /\ CliIdle
    /\ file = AbsentFile

\* Calls that all run to their end, from a missing file, and a reader.
SpecAtomic == InitAtomic /\ [][AtomicNext]_vars

-----------------------------------------------------------------------------
(* What the converters and the validator share *)

\* The process's exit status: 0 when main returns, 1 after sys.exit(1) and
\* after an uncaught exception.
ExitOk == 0
ExitError == 1

\* The registry is not touched by the converters and the validator.
RegIdle == RegInit /\ file = AbsentFile

\* ct.RangeDim(lower_bound, upper_bound, default) as the code constructs it.
RangeDim(lower_bound, upper_bound, default) ==
    [lower |-> lower_bound, upper |-> upper_bound, default |-> default]

\* ct.RangeDim(lower_bound, upper_bound): with no default given, coremltools
\* takes the lower bound as the default.
RangeDimNoDefault(lower_bound, upper_bound) ==
    [lower |-> lower_bound, upper |-> upper_bound, default |-> lower_bound]

\* ct.TensorType(name, shape=(1, seq)) or (1, seq, last).
TensorType(name, seq, last) == [name |-> name, seq |-> seq, last |-> last]

\* A saved file or package.
Artifact(model, part, quantized) ==
    [model |-> model, part |-> part, quantized |-> quantized]

\* The stage runs to its end and control goes to next.
Done(name, next) ==
    /\ stage = name
    /\ stage' = next
    /\ ran' = Append(ran, name)
    /\ UNCHANGED raised

\* The stage raises an Exception and control goes to the handler.
Raises(name, handler) ==
    /\ stage = name
    /\ stage' = handler
    /\ ran' = Append(ran, name)
    /\ raised' = raised \cup {<<loop_i, name>>}

-----------------------------------------------------------------------------
(* convert_gemma_to_coreml.py *)

\* --max-length (type=int: any integer is accepted)
LengthInputs == {0, 1, 64, 128, 129, 512}

\* The default of the sequence dimension, line 207.
DefaultSeqLen == 128

GemmaArgs ==
    [max_length : LengthInputs,
     quantize : {"float16", "int8", "none"},
     skip_validation : BOOLEAN]

GemmaModel == "Gemma3nE2B"

\* The variables convert_gemma never changes.
gemmaFrame == <<regVars, prog, args, models_to_convert, loop_i, attempts,
                reports, probe, tests>>

InitGemma ==
    /\ prog = "convert_gemma"
    /\ RegIdle
    /\ args \in GemmaArgs
    /\ stage = "check_dependencies"
    /\ models_to_convert = <<>>
    /\ loop_i = 0
    /\ attempts = <<>>
    /\ reports = <<>>
    /\ ran = <<>>
    /\ raised = {}
    /\ exitCode = None
    /\ disk = {}
    /\ inputs = <<>>
    /\ probe = <<>>
    /\ tests = <<0, 0>>

\* A plausible bug: the except clause does not re-raise.
GemmaOnErrorSwallow == "swallow"

\* Line 414: the except clause of main ends in a bare raise.
GemmaOnError == "raise"

\* Lines 355-358: sys.exit(1) when a dependency is missing.
G_CheckDependencies ==
    /\ prog = "convert_gemma"
    /\ stage = "check_dependencies"
    /\ ran' = Append(ran, "check_dependencies")
    /\ \/ /\ stage' = "load_model"
          /\ UNCHANGED exitCode
       \/ /\ stage' = "exit"
          /\ exitCode' = ExitError
    /\ UNCHANGED <<gemmaFrame, raised, disk, inputs>>

\* Line 373.
G_LoadModel ==
    /\ prog = "convert_gemma"
    /\ \/ Done("load_model", "create_translation_wrapper")
       \/ Raises("load_model", "except")
    /\ UNCHANGED <<gemmaFrame, exitCode, disk, inputs>>

\* Lines 376-379.
G_CreateWrapper ==
    /\ prog = "convert_gemma"
    /\ \/ Done("create_translation_wrapper", "trace_model")
       \/ Raises("create_translation_wrapper", "except")
    /\ UNCHANGED <<gemmaFrame, exitCode, disk, inputs>>

\* Line 382.
G_TraceModel ==
    /\ prog = "convert_gemma"
    /\ \/ Done("trace_model", "input_shape")
       \/ Raises("trace_model", "except")
    /\ UNCHANGED <<gemmaFrame, exitCode, disk, inputs>>

\* Lines 204-208 of convert_to_coreml: the sequence dimension of both inputs.
input_shape(max_length) == RangeDim(1, max_length, DefaultSeqLen)

\* Lines 206-208 and 224-235: the descriptors handed to coremltools, which
\* may reject them.
G_InputShape ==
    /\ prog = "convert_gemma"
    /\ inputs' = <<TensorType("input_ids", input_shape(args.max_length), "none"),
                   TensorType("attention_mask", input_shape(args.max_length), "none")>>
    /\ \/ Done("input_shape", "ct_convert")
       \/ Raises("input_shape", "except")
    /\ UNCHANGED <<gemmaFrame, exitCode, disk>>

\* Lines 221-243; line 246 chooses the second pass.
G_CtConvert ==
    /\ prog = "convert_gemma"
    /\ \/ Done("ct_convert",
               IF args.quantize = "int8" THEN "affine_quantize_weights"
               ELSE "metadata")
       \/ Raises("ct_convert", "except")
    /\ UNCHANGED <<gemmaFrame, exitCode, disk, inputs>>

\* A plausible bug: a failure of the int8 pass is swallowed and the run goes
\* on to save the model as it is.
G_QuantizeFailureIgnored ==
    /\ prog = "convert_gemma"
    /\ \/ Done("affine_quantize_weights", "metadata")
       \/ Raises("affine_quantize_weights", "metadata")
    /\ UNCHANGED <<gemmaFrame, exitCode, disk, inputs>>

\* Lines 246-252: the int8 pass over the converted model, in memory.
G_Quantize ==
    /\ prog = "convert_gemma"
    /\ \/ Done("affine_quantize_weights", "metadata")
       \/ Raises("affine_quantize_weights", "except")
    /\ UNCHANGED <<gemmaFrame, exitCode, disk, inputs>>

\* Lines 254-262.
G_Metadata ==
    /\ prog = "convert_gemma"
    /\ Done("metadata", "save")
    /\ UNCHANGED <<gemmaFrame, exitCode, disk, inputs>>

\* Lines 264-277 and 396: the only save of convert_to_coreml. A save that
\* raises is taken to leave nothing behind.
G_Save ==
    /\ prog = "convert_gemma"
    /\ \/ /\ Done("save", IF args.skip_validation THEN "success"
                          ELSE "validate_load")
          /\ disk' = disk \cup
                 {Artifact(GemmaModel, "mlpackage", args.quantize = "int8")}
       \/ /\ Raises("save", "except")
          /\ UNCHANGED disk
    /\ UNCHANGED <<gemmaFrame, exitCode, inputs>>

\* Lines 292-294 of validate_model: the load is not inside a try.
G_ValidateLoad ==
    /\ prog = "convert_gemma"
    /\ \/ Done("validate_load", "validate_predict")
       \/ Raises("validate_load", "except")
    /\ UNCHANGED <<gemmaFrame, exitCode, disk, inputs>>

\* Lines 306-315 of validate_model: a failed prediction is a warning.
G_ValidatePredict ==
    /\ prog = "convert_gemma"
    /\ \/ Done("validate_predict", "success")
       \/ Raises("validate_predict", "success")
    /\ UNCHANGED <<gemmaFrame, exitCode, disk, inputs>>

\* Lines 399-406: main returns.
G_Success ==
    /\ prog = "convert_gemma"
    /\ Done("success", "exit")
    /\ exitCode' = ExitOk
    /\ UNCHANGED <<gemmaFrame, disk, inputs>>

\* Lines 408-414: the tips are printed and the exception is raised again.
G_Except ==
    /\ prog = "convert_gemma"
    /\ Done("except", "exit")
    /\ exitCode' = IF GemmaOnError = "raise" THEN ExitError ELSE ExitOk
    /\ UNCHANGED <<gemmaFrame, disk, inputs>>

GemmaNext ==
    \/ G_CheckDependencies
    \/ G_LoadModel
    \/ G_CreateWrapper
    \/ G_TraceModel
    \/ G_InputShape
    \/ G_CtConvert
    \/ G_Quantize
    \/ G_Metadata
    \/ G_Save
    \/ G_ValidateLoad
    \/ G_ValidatePredict
    \/ G_Success
    \/ G_Except

\* One run of convert_gemma_to_coreml.py.
SpecGemma == InitGemma /\ [][GemmaNext]_vars

-----------------------------------------------------------------------------
(* convert_opus_to_coreml.py *)

\* The longest batch the model runs.
MaxBatch == 3

\* --model: keys of OPUS_MODELS (lines 36-79).
OpusNames == {"en-es", "es-en"}

\* Line 82.
DEFAULT_BUNDLE_MODELS == <<"en-es", "es-en">>

\* The lists DEFAULT_BUNDLE_MODELS may be set to: the loop of main is the
\* same for every list.
BundleChoices == UNION {[1..n -> OpusNames] : n \in 1..MaxBatch}

\* The upper bound of every RangeDim, lines 194-195 and 217-219.
OpusMaxLength == 512

\* The command lines run: without --all the bundle is the code's own; with
\* --all, --model is left out or given once and --quantize is left at its
\* default.
OpusArgs ==
    {a \in [all : BOOLEAN,
            model : OpusNames \cup {None},
            quantize : {"none", "float16"},
            bundle : BundleChoices \cup {DEFAULT_BUNDLE_MODELS}] :
        /\ ~a.all => a.bundle = DEFAULT_BUNDLE_MODELS
        /\ a.all => a.model \in {None, "en-es"} /\ a.quantize = "float16"}

\* Line 179: f"OpusMT_{self.model_name.replace('-', '_')}"
model_output_name(model_name) == <<"OpusMT", model_name>>

\* The variables convert_opus never changes.
opusFrame == <<regVars, prog, args, probe, tests>>

InitOpus ==
    /\ prog = "convert_opus"
    /\ RegIdle
    /\ args \in OpusArgs
    /\ stage = "parse"
    /\ models_to_convert = <<>>
    /\ loop_i = 0
    /\ attempts = <<>>
    /\ reports = <<>>
    /\ ran = <<>>
    /\ raised = {}
    /\ exitCode = None
    /\ disk = {}
    /\ inputs = <<>>
    /\ probe = <<>>
    /\ tests = <<0, 0>>

\* A plausible bug: the except clause leaves the loop.
OpusOnErrorBreak == "break"

\* Line 322: the except clause of the loop ends in continue.
OpusOnError == "continue"

\* Lines 295-306: the batch, or sys.exit(1) when neither flag is given.
O_Parse ==
    /\ prog = "convert_opus"
    /\ stage = "parse"
    /\ IF args.all
       THEN /\ models_to_convert' = args.bundle
            /\ loop_i' = 1
            /\ stage' = "loop"
            /\ UNCHANGED exitCode
       ELSE IF args.model # None
       THEN /\ models_to_convert' = <<args.model>>
            /\ loop_i' = 1
            /\ stage' = "loop"
            /\ UNCHANGED exitCode
       ELSE /\ exitCode' = ExitError
            /\ stage' = "exit"
            /\ UNCHANGED <<models_to_convert, loop_i>>
    /\ UNCHANGED <<opusFrame, attempts, reports, ran, raised, disk, inputs>>

\* Lines 308-314: the next model of the batch, if there is one.
O_Loop ==
    /\ prog = "convert_opus"
    /\ stage = "loop"
    /\ IF loop_i <= Len(models_to_convert)
       THEN /\ attempts' = Append(attempts, models_to_convert[loop_i])
            /\ ran' = <<>>
            /\ stage' = "load_model"
       ELSE /\ stage' = "finish"
            /\ UNCHANGED <<attempts, ran>>
    /\ UNCHANGED <<opusFrame, models_to_convert, loop_i, reports, raised,
                   exitCode, disk, inputs>>

\* A stage of the try block that saves nothing.
O_Stage(name, next) ==
    /\ prog = "convert_opus"
    /\ \/ Done(name, next)
       \/ Raises(name, "except")
    /\ UNCHANGED <<opusFrame, models_to_convert, loop_i, attempts, reports,
                   exitCode, disk, inputs>>

\* A ct.convert call with its input descriptors.
O_Convert(name, next, descriptors) ==
    /\ prog = "convert_opus"
    /\ inputs' = descriptors
    /\ \/ Done(name, next)
       \/ Raises(name, "except")
    /\ UNCHANGED <<opusFrame, models_to_convert, loop_i, attempts, reports,
                   exitCode, disk>>

\* A plausible bug: a save that raises removes what the attempt has saved.
O_SaveStageRollsBack(name, next, part) ==
    /\ prog = "convert_opus"
    /\ \/ /\ Done(name, next)
          /\ disk' = disk \cup
                 {Artifact(model_output_name(models_to_convert[loop_i]), part, FALSE)}
       \/ /\ Raises(name, "except")
          /\ disk' = {a \in disk :
                         a.model # model_output_name(models_to_convert[loop_i])}
    /\ UNCHANGED <<opusFrame, models_to_convert, loop_i, attempts, reports,
                   exitCode, inputs>>

\* A stage that writes one file or package. A save that raises is taken to
\* leave nothing behind.
O_SaveStage(name, next, part) ==
    /\ prog = "convert_opus"
    /\ \/ /\ Done(name, next)
          /\ disk' = disk \cup
                 {Artifact(model_output_name(models_to_convert[loop_i]), part, FALSE)}
       \/ /\ Raises(name, "except")
          /\ UNCHANGED disk
    /\ UNCHANGED <<opusFrame, models_to_convert, loop_i, attempts, reports,
                   exitCode, inputs>>

\* Line 317; lines 92-106.
O_LoadModel == O_Stage("load_model", "mkdir")

\* Lines 176-187 of convert_to_coreml.
O_Mkdir == O_Stage("mkdir", "trace_encoder")

\* Line 191; lines 108-137.
O_TraceEncoder == O_Stage("trace_encoder", "convert_encoder")

\* Lines 193-196.
encoder_inputs ==
    <<TensorType("input_ids", RangeDimNoDefault(1, OpusMaxLength), "none"),
      TensorType("attention_mask", RangeDimNoDefault(1, OpusMaxLength), "none")>>

\* Lines 193-206.
O_ConvertEncoder == O_Convert("convert_encoder", "save_encoder", encoder_inputs)

\* Lines 208-210.
O_SaveEncoder == O_SaveStage("save_encoder", "trace_decoder", "encoder")

\* Line 214; lines 139-172.
O_TraceDecoder == O_Stage("trace_decoder", "convert_decoder")

\* Line 144 of trace_decoder: the traced example has one decoder token.
dummy_decoder_input_ids == 1

\* A plausible variant: the decoder's token input is declared with the fixed
\* length of the traced example.
decoder_inputs_fixed_ids ==
    <<TensorType("decoder_input_ids",
                 RangeDim(dummy_decoder_input_ids, dummy_decoder_input_ids,
                          dummy_decoder_input_ids), "none"),
      TensorType("encoder_hidden_states", RangeDimNoDefault(1, OpusMaxLength),
                 "d_model"),
      TensorType("encoder_attention_mask", RangeDimNoDefault(1, OpusMaxLength),
                 "none")>>

\* Lines 216-220.
decoder_inputs ==
    <<TensorType("decoder_input_ids", RangeDimNoDefault(1, OpusMaxLength), "none"),
      TensorType("encoder_hidden_states", RangeDimNoDefault(1, OpusMaxLength),
                 "d_model"),
      TensorType("encoder_attention_mask", RangeDimNoDefault(1, OpusMaxLength),
                 "none")>>

\* Lines 216-230.
O_ConvertDecoder == O_Convert("convert_decoder", "save_decoder", decoder_inputs)

\* Lines 232-234.
O_SaveDecoder == O_SaveStage("save_decoder", "save_config", "decoder")

\* Lines 245-256 of save_tokenizer_config.
O_SaveConfig == O_SaveStage("save_config", "save_vocab", "config")

\* Lines 258-263 of save_tokenizer_config, and line 239.
O_SaveVocab == O_SaveStage("save_vocab", "converted", "vocab")

\* Line 319: the model is reported converted.
O_Converted ==
    /\ prog = "convert_opus"
    /\ Done("converted", "loop")
    /\ reports' = Append(reports, [model |-> models_to_convert[loop_i],
                                   status |-> "converted"])
    /\ loop_i' = loop_i + 1
    /\ UNCHANGED <<opusFrame, models_to_convert, attempts, exitCode, disk, inputs>>

\* Lines 320-322: the failure is reported and the loop goes on.
O_Except ==
    /\ prog = "convert_opus"
    /\ Done("except", IF OpusOnError = "raise" THEN "exit" ELSE "loop")
    /\ reports' = Append(reports, [model |-> models_to_convert[loop_i],
                                   status |-> "failed"])
    /\ loop_i' = IF OpusOnError = "continue" THEN loop_i + 1
                 ELSE Len(models_to_convert) + 1
    /\ exitCode' = IF OpusOnError = "raise" THEN ExitError ELSE exitCode
    /\ UNCHANGED <<opusFrame, models_to_convert, attempts, disk, inputs>>

\* Lines 324-328: main returns.
O_Finish ==
    /\ prog = "convert_opus"
    /\ stage = "finish"
    /\ stage' = "exit"
    /\ exitCode' = ExitOk
    /\ UNCHANGED <<opusFrame, models_to_convert, loop_i, attempts, reports, ran,
                   raised, disk, inputs>>

OpusNext ==
    \/ O_Parse
    \/ O_Loop
    \/ O_LoadModel
    \/ O_Mkdir
    \/ O_TraceEncoder
    \/ O_ConvertEncoder
    \/ O_SaveEncoder
    \/ O_TraceDecoder
    \/ O_ConvertDecoder
    \/ O_SaveDecoder
    \/ O_SaveConfig
    \/ O_SaveVocab
    \/ O_Converted
    \/ O_Except
    \/ O_Finish

\* One run of convert_opus_to_coreml.py.
SpecOpus == InitOpus /\ [][OpusNext]_vars

-----------------------------------------------------------------------------
(* test_conversion.py *)

ValidatorArgs ==
    [path_exists : BOOLEAN,
     model_type : {"auto", "gemma", "opus"},
     opus_in_path : BOOLEAN,
     skip_inference : BOOLEAN]

\* Lines 228-235: the type given, or detected from the path.
model_type(a) ==
    IF a.model_type = "auto"
    THEN IF a.opus_in_path THEN "opus" ELSE "gemma"
    ELSE a.model_type

\* Lines 137-142.
compute_units == <<"CPU Only", "CPU + GPU", "CPU + Neural Engine", "All Available">>

\* Lines 86-108: the dummy inputs of test_inference, of sequence length 32;
\* the decoder's seed token has length 1.
dummy_inputs(type) ==
    IF type = "opus"
    THEN <<TensorType("input_ids", 32, "none"),
           TensorType("attention_mask", 32, "none"),
           TensorType("decoder_input_ids", 1, "none")>>
    ELSE <<TensorType("input_ids", 32, "none"),
           TensorType("attention_mask", 32, "none")>>

\* The variables test_conversion never changes.
validatorFrame == <<regVars, prog, args, models_to_convert, loop_i, attempts,
                    reports, disk>>

InitValidator ==
    /\ prog = "test_conversion"
    /\ RegIdle
    /\ args \in ValidatorArgs
    /\ stage = "check_path"
    /\ models_to_convert = <<>>
    /\ loop_i = 0
    /\ attempts = <<>>
    /\ reports = <<>>
    /\ ran = <<>>
    /\ raised = {}
    /\ exitCode = None
    /\ disk = {}
    /\ inputs = <<>>
    /\ probe = <<>>
    /\ tests = <<0, 0>>

\* A plausible bug: the script goes on after a failed load.
AfterLoadFailureGoesOn == "test_model_metadata"

\* Lines 245-247: sys.exit(1) when the model did not load.
AfterLoadFailure == "exit"

\* tests_total += 1, and tests_passed += 1 when the test passed.
Count(passed) == <<tests[1] + (IF passed THEN 1 ELSE 0), tests[2] + 1>>

\* Lines 223-235: sys.exit(1) when the path does not exist.
V_CheckPath ==
    /\ prog = "test_conversion"
    /\ stage = "check_path"
    /\ ran' = Append(ran, "check_path")
    /\ IF args.path_exists
       THEN /\ stage' = "test_model_loading"
            /\ UNCHANGED exitCode
       ELSE /\ stage' = "exit"
            /\ exitCode' = ExitError
    /\ UNCHANGED <<validatorFrame, raised, inputs, probe, tests>>

\* Lines 240-247 and test_model_loading, lines 26-41: the exception of a
\* failed load is caught and False is returned.
V_Loading ==
    /\ prog = "test_conversion"
    /\ \/ /\ Done("test_model_loading", "test_model_metadata")
          /\ tests' = Count(TRUE)
          /\ UNCHANGED exitCode
       \/ /\ Raises("test_model_loading", AfterLoadFailure)
          /\ tests' = <<tests[1], tests[2] + 1>>
          /\ exitCode' = IF AfterLoadFailure = "exit" THEN ExitError ELSE exitCode
    /\ UNCHANGED <<validatorFrame, inputs, probe>>

\* Lines 249-252 and test_model_metadata, lines 44-78, which reads the
\* loaded model's descriptions and returns True.
V_Metadata ==
    /\ prog = "test_conversion"
    /\ Done("test_model_metadata",
            IF args.skip_inference THEN "test_compute_units" ELSE "test_inference")
    /\ tests' = Count(TRUE)
    /\ UNCHANGED <<validatorFrame, exitCode, inputs, probe>>

\* A plausible bug: a failed synthetic inference ends the run like a failed
\* load.
V_InferenceFatal ==
    /\ prog = "test_conversion"
    /\ inputs' = dummy_inputs(model_type(args))
    /\ \/ /\ Done("test_inference", "test_compute_units")
          /\ tests' = Count(TRUE)
          /\ UNCHANGED exitCode
       \/ /\ Raises("test_inference", "exit")
          /\ tests' = Count(FALSE)
          /\ exitCode' = ExitError
    /\ UNCHANGED <<validatorFrame, probe>>

\* Lines 254-258 and test_inference, lines 81-128: an exception of predict
\* is caught and False is returned.
V_Inference ==
    /\ prog = "test_conversion"
    /\ inputs' = dummy_inputs(model_type(args))
    /\ \/ /\ Done("test_inference", "test_compute_units")
          /\ tests' = Count(TRUE)
       \/ /\ Raises("test_inference", "test_compute_units")
          /\ tests' = Count(FALSE)
    /\ UNCHANGED <<validatorFrame, exitCode, probe>>

\* A plausible bug: no try around the load, so the first configuration that
\* fails ends the probe.
V_ComputeUnitStopsAtFailure ==
    /\ prog = "test_conversion"
    /\ stage = "test_compute_units"
    /\ Len(probe) < Len(compute_units)
    /\ \/ /\ probe' = Append(probe, [name |-> compute_units[Len(probe) + 1],
                                     supported |-> TRUE])
          /\ UNCHANGED <<stage, ran, raised>>
       \/ /\ Raises("test_compute_units", "estimate_memory_usage")
          /\ UNCHANGED probe
    /\ UNCHANGED <<validatorFrame, exitCode, inputs, tests>>

\* Lines 146-154 of test_compute_units: one load under the next configuration.
V_ComputeUnit ==
    /\ prog = "test_conversion"
    /\ stage = "test_compute_units"
    /\ Len(probe) < Len(compute_units)
    /\ \E supported \in BOOLEAN :
           probe' = Append(probe, [name |-> compute_units[Len(probe) + 1],
                                   supported |-> supported])
    /\ UNCHANGED <<validatorFrame, stage, ran, raised, exitCode, inputs, tests>>

\* Lines 156-165 and 260-263: the table is printed and True is returned.
V_ComputeUnitsDone ==
    /\ prog = "test_conversion"
    /\ Len(probe) = Len(compute_units)
    /\ Done("test_compute_units", "estimate_memory_usage")
    /\ tests' = Count(TRUE)
    /\ UNCHANGED <<validatorFrame, exitCode, inputs, probe>>

\* Lines 265-268 and estimate_memory_usage, lines 168-195.
V_Memory ==
    /\ prog = "test_conversion"
    /\ Done("estimate_memory_usage", "summary")
    /\ tests' = Count(TRUE)
    /\ UNCHANGED <<validatorFrame, exitCode, inputs, probe>>

\* Lines 270-279: main returns.
V_Summary ==
    /\ prog = "test_conversion"
    /\ Done("summary", "exit")
    /\ exitCode' = ExitOk
    /\ UNCHANGED <<validatorFrame, inputs, probe, tests>>

ValidatorNext ==
    \/ V_CheckPath
    \/ V_Loading
    \/ V_Metadata
    \/ V_Inference
    \/ V_ComputeUnit
    \/ V_ComputeUnitsDone
    \/ V_Memory
    \/ V_Summary

\* One run of test_conversion.py.
SpecValidator == InitValidator /\ [][ValidatorNext]_vars

-----------------------------------------------------------------------------
(* One run of one of the three scripts *)

InitCli == InitGemma \/ InitOpus \/ InitValidator

CliNext == GemmaNext \/ OpusNext \/ ValidatorNext

SpecCli == InitCli /\ [][CliNext]_vars

-----------------------------------------------------------------------------
(* Any run of any script *)

Init == InitRegistry \/ InitCli

Writer2Next ==
    \/ \E e \in Entries : W2_Call(e)
    \/ W2_Read
    \/ W2_Update
    \/ W2_OpenForWrite
    \/ W2_Close

Next == RegistryNext \/ ReaderObserve \/ Writer2Next \/ CliNext

Spec == Init /\ [][Next]_vars

-----------------------------------------------------------------------------
(* The registry's claims *)

\* The last call of update_registry has ended by itself (returned or raised).
CallEnded == pc = "idle" /\ outcome \in {"ok", "raised"}

Positions(models, id) == {i \in DOMAIN models : models[i].id = id}

\* C1: whatever calls of update_registry were made from a missing or empty
\* registry file, the persisted models list holds at most one entry per id.
C1_RegistryUniqueIds ==
    Parseable(file) =>
        \A id \in Ids : Cardinality(Positions(file.models, id)) <= 1

\* A call replaced an entry of a registry of three entries.
C1_Witness ==
    /\ CallEnded /\ outcome = "ok"
    /\ Parseable(file) /\ Len(file.models) = 3
    /\ model_metadata.id \in IdsOf(before.models)

\* C2: when the registry read holds an entry with the id of e,
\* update_registry(e) returns, and the persisted list has the length it had,
\* exactly one entry of that id, and that entry is e in full.
C2_ReplaceNotDuplicate ==
    (CallEnded /\ model_metadata.id \in IdsOf(before.models)) =>
        /\ outcome = "ok"
        /\ Parseable(file)
        /\ Len(file.models) = Len(before.models)
        /\ Cardinality(Positions(file.models, model_metadata.id)) = 1
        /\ \A i \in Positions(file.models, model_metadata.id) :
               file.models[i] = model_metadata

\* An entry of a registry of two or more was replaced by one of another version.
C2_Witness ==
    /\ CallEnded /\ outcome = "ok"
    /\ Len(before.models) >= 2
    /\ \E i \in DOMAIN before.models :
           /\ before.models[i].id = model_metadata.id
           /\ before.models[i].version # model_metadata.version

\* C3: update_registry(e) right after update_registry(e) leaves the models
\* list as it was after the first call; only lastUpdated may differ.
C3_Idempotent ==
    (CallEnded /\ prev.outcome \in {"ok", "raised"} /\ prev.entry = model_metadata) =>
        /\ Parseable(file)
        /\ file.models = prev.models

\* The second of two equal calls returned on another day than the first.
C3_Witness ==
    /\ CallEnded /\ outcome = "ok"
    /\ prev.outcome = "ok" /\ prev.entry = model_metadata
    /\ Len(file.models) >= 2
    /\ file.lastUpdated # prev.lastUpdated

C5_ReaderSeesCompleteDocument == observed \in {None, "absent", "doc"}

-----------------------------------------------------------------------------
(* The converters' and the validator's claims *)

\* The stage was run (convert_opus: for the current model).
InRan(name) == \E k \in DOMAIN ran : ran[k] = name

\* Some stage raised while the loop was at the k-th model.
RaisedAt(k) == \E r \in raised : r[1] = k

\* C6: the loop of convert_opus starts on every model of the batch exactly
\* once and in list order, reports a failure for exactly the models one of
\* whose stages raised and a success for the others, and does not end before
\* it has started on the last model.
C6_BatchFaultIsolation ==
    prog = "convert_opus" =>
        /\ Len(attempts) <= Len(models_to_convert)
        /\ attempts = SubSeq(models_to_convert, 1, Len(attempts))
        /\ Len(reports) <= Len(attempts)
        /\ \A k \in DOMAIN reports :
               /\ reports[k].model = models_to_convert[k]
               /\ reports[k].status = (IF RaisedAt(k) THEN "failed" ELSE "converted")
        /\ (stage = "exit" /\ models_to_convert # <<>>) =>
               /\ attempts = models_to_convert
               /\ Len(reports) = Len(models_to_convert)

\* A batch of three has ended; only the second model's load raised.
C6_Witness ==
    /\ prog = "convert_opus" /\ stage = "exit"
    /\ Len(models_to_convert) = 3
    /\ raised = {<<2, "load_model">>}
    /\ Len(reports) = 3
    /\ reports[1].status = "converted"
    /\ reports[2].status = "failed"
    /\ reports[3].status = "converted"

\* The maximum length the run was asked for.
RequestedLength ==
    IF prog = "convert_gemma" THEN args.max_length ELSE OpusMaxLength

\* C7: for a requested maximum length L >= 1, every sequence dimension handed
\* to the converter has lower bound 1, upper bound L and a default in 1..L.
C7_ShapePolicyBounds ==
    (prog \in {"convert_gemma", "convert_opus"} /\ RequestedLength >= 1) =>
        \A k \in DOMAIN inputs :
            /\ inputs[k].seq.lower = 1
            /\ inputs[k].seq.upper = RequestedLength
            /\ 1 <= inputs[k].seq.default
            /\ inputs[k].seq.default <= RequestedLength

\* A stage of convert_gemma raised that is not the advisory prediction.
GemmaFatalRaised == \E r \in raised : r[2] # "validate_predict"

\* convert_opus was run with --model and without --all.
SingleOpus == prog = "convert_opus" /\ ~args.all /\ args.model # None

\* C8 as claimed: when one model is converted and a stage raises, the run
\* ends with a non-zero exit status, for convert_gemma and for convert_opus
\* run with a single --model.
C8_SingleModelErrorPropagates ==
    (/\ stage = "exit"
     /\ \/ prog = "convert_gemma" /\ GemmaFatalRaised
        \/ SingleOpus /\ raised # {}) =>
        exitCode # ExitOk

\* C8 as amended: convert_gemma ends with exit status 1 when a stage raised;
\* convert_opus run with a single --model reports the failure and ends with
\* exit status 0.
C8_ErrorPropagationByConverter ==
    /\ (prog = "convert_gemma" /\ stage = "exit" /\ GemmaFatalRaised) =>
           exitCode = ExitError
    /\ (SingleOpus /\ stage = "exit" /\ raised # {}) =>
           /\ exitCode = ExitOk
           /\ reports = <<[model |-> args.model, status |-> "failed"]>>

\* convert_opus --model m has ended after the conversion of m raised.
C8_Witness ==
    /\ SingleOpus /\ stage = "exit"
    /\ \E r \in raised : r[2] = "convert_encoder"

\* The checks of test_conversion that follow the load.
LaterChecks ==
    {"test_model_metadata", "test_inference", "test_compute_units",
     "estimate_memory_usage", "summary"}

\* C9: when the load of the artifact fails, validation ends at once with a
\* non-zero exit status and none of the later checks runs: in
\* test_conversion, and in validate_model of convert_gemma.
C9_LoadFailureIsFatal ==
    /\ (prog = "test_conversion" /\ <<0, "test_model_loading">> \in raised) =>
           /\ stage = "exit"
           /\ exitCode = ExitError
           /\ \A name \in LaterChecks : ~InRan(name)
           /\ probe = <<>>
    /\ (prog = "convert_gemma" /\ <<0, "validate_load">> \in raised) =>
           /\ ~InRan("validate_predict")
           /\ ~InRan("success")
           /\ stage = "exit" => exitCode = ExitError

\* test_conversion has ended on a failed load.
C9_Witness ==
    /\ prog = "test_conversion"
    /\ <<0, "test_model_loading">> \in raised
    /\ stage = "exit"
    /\ tests = <<0, 1>>

-----------------------------------------------------------------------------
(* convert_gemma_to_coreml.py: the int8 pass and the requested length *)

\* The int8 pass of the run raised.
QuantizeRaised == \E r \in raised : r[2] = "affine_quantize_weights"

\* The half-precision package of the run, as the save would write it.
BaseArtifact == Artifact(GemmaModel, "mlpackage", FALSE)

\* C11: in int8 mode the half-precision package is on disk when the int8 pass
\* begins, and is still there when that pass has raised.
C11_BaseSavedBeforeQuantization ==
    (prog = "convert_gemma"
        /\ (stage = "affine_quantize_weights" \/ QuantizeRaised)) =>
        BaseArtifact \in disk

\* C11, amended: the int8 pass runs on the converted model in memory, after
\* ct.convert has returned and before the only save; nothing is on disk while
\* it runs, a failure of the pass leaves nothing on disk and ends the run with
\* a non-zero status, and the package that an int8 run saves is the quantized
\* one.
C11_QuantizationPrecedesSave ==
    prog = "convert_gemma" =>
        /\ stage = "affine_quantize_weights" =>
               /\ args.quantize = "int8"
               /\ InRan("ct_convert")
               /\ <<0, "ct_convert">> \notin raised
               /\ disk = {}
        /\ QuantizeRaised =>
               /\ disk = {}
               /\ ~InRan("save")
               /\ stage = "exit" => exitCode = ExitError
        /\ \A a \in disk :
               /\ a.quantized = (args.quantize = "int8")
               /\ a.quantized => InRan("affine_quantize_weights")

\* An int8 run has ended after its int8 pass raised.
C11_Witness ==
    /\ prog = "convert_gemma" /\ stage = "exit"
    /\ args.quantize = "int8"
    /\ QuantizeRaised
    /\ disk = {}

\* The stages of main after the command line is parsed and the dependencies
\* are checked.
DownstreamStages ==
    {"load_model", "create_translation_wrapper", "trace_model", "input_shape",
     "ct_convert", "affine_quantize_weights", "metadata", "save",
     "validate_load", "validate_predict"}

\* C16: when the requested maximum length is less than 1, the run is rejected
\* before model loading, wrapping, tracing or conversion runs.
C16_LengthBelowOneRejected ==
    (prog = "convert_gemma" /\ args.max_length < 1) =>
        /\ \A k \in DOMAIN ran : ran[k] \notin DownstreamStages
        /\ stage \notin DownstreamStages
        /\ stage = "exit" => exitCode = ExitError

-----------------------------------------------------------------------------
(* convert_opus_to_coreml.py: what convert_to_coreml leaves on disk *)

\* The parts of a model's output that are on disk.
PartsOnDisk(model_name) ==
    {a.part : a \in {b \in disk : b.model = model_output_name(model_name)}}

\* The packages and the sidecar the claim speaks of, and the vocabulary file
\* that save_tokenizer_config writes after them.
PackageParts == {"encoder", "decoder", "config"}

AllParts == PackageParts \cup {"vocab"}

\* The save stage of each part.
SaveStageOf(part) ==
    CASE part = "encoder" -> "save_encoder"
      [] part = "decoder" -> "save_decoder"
      [] part = "config" -> "save_config"
      [] part = "vocab" -> "save_vocab"

\* The stage of convert_to_coreml ran in this attempt and did not raise.
Completed(name) == InRan(name) /\ <<loop_i, name>> \notin raised

\* Control has left convert_to_coreml: by its return, or by an exception of
\* one of its stages.
LeftConvert ==
    \/ stage = "converted"
    \/ stage = "except" /\ <<loop_i, "load_model">> \notin raised

\* C12: whenever control leaves convert_to_coreml, by return or by exception,
\* the output directory holds for the model either all of encoder package,
\* decoder package and config sidecar, or none of them.
C12_ArtifactSetAllOrNothing ==
    (prog = "convert_opus" /\ LeftConvert) =>
        LET here == PartsOnDisk(models_to_convert[loop_i]) \cap PackageParts IN
        here = {} \/ here = PackageParts

\* C12, amended: convert_to_coreml returns only after the encoder package,
\* the decoder package, the config sidecar and the vocabulary file have all
\* been saved, so a model reported converted has all of them on disk; when a
\* stage raises, what the attempt had saved before stays on disk.
C12_ReturnsOnlyCompleteSet ==
    prog = "convert_opus" =>
        /\ stage = "converted" => PartsOnDisk(models_to_convert[loop_i]) = AllParts
        /\ \A k \in DOMAIN reports :
               reports[k].status = "converted" =>
                   PartsOnDisk(reports[k].model) = AllParts
        /\ stage \in {"except", "converted"} =>
               \A part \in AllParts :
                   Completed(SaveStageOf(part)) =>
                       part \in PartsOnDisk(models_to_convert[loop_i])

\* The decoder's save raised after the encoder package had been saved: the
\* exception leaves the encoder package alone in the directory.
C12_Witness ==
    /\ prog = "convert_opus" /\ stage = "except"
    /\ <<loop_i, "save_decoder">> \in raised
    /\ PartsOnDisk(models_to_convert[loop_i]) = {"encoder"}

-----------------------------------------------------------------------------
(* update_registry.py: any file content, and two writers *)

\* The document read is an object with a models list of objects that all
\* carry an id.
WellFormed(snapshot) ==
    /\ snapshot.kind = "doc"
    /\ \A i \in DOMAIN snapshot.models : snapshot.models[i].id # NoId

\* C13: whatever registry.json holds, valid JSON that is not a registry
\* document included, update_registry(e) with an e that carries an id
\* returns without raising, and a document that is not a well-formed registry
\* is taken as the empty registry: the persisted models list is <<e>>.
C13_MalformedDocumentTolerated ==
    (CallEnded /\ model_metadata.id # NoId) =>
        /\ outcome = "ok"
        /\ ~WellFormed(before) => file.kind = "doc" /\ file.models = <<model_metadata>>

\* The models list the call started from.
ModelsBefore == IF before.kind = "doc" THEN before.models ELSE <<>>

\* C14: a call that returns changes at most one position of the models list:
\* when an entry with e's id exists, the first such entry becomes e and every
\* other entry keeps its value and index; otherwise e is appended at the end
\* and every existing entry keeps its value and index. A call that raises
\* leaves the file as it was.
C14_OrderStability ==
    CallEnded =>
        LET e == model_metadata
            old == ModelsBefore
            matches == Positions(old, e.id)
        IN
        IF outcome = "raised"
        THEN file.kind = before.kind /\ file.models = before.models
        ELSE /\ file.kind = "doc"
             /\ IF matches # {}
                THEN LET first == CHOOSE i \in matches : \A j \in matches : i <= j IN
                     /\ Len(file.models) = Len(old)
                     /\ file.models[first] = e
                     /\ \A i \in DOMAIN old : i # first => file.models[i] = old[i]
                ELSE /\ Len(file.models) = Len(old) + 1
                     /\ file.models[Len(old) + 1] = e
                     /\ \A i \in DOMAIN old : file.models[i] = old[i]

\* A call returned whose id was at both positions of a hand-written list: the
\* first became e and the second kept its old value.
C14_Witness ==
    /\ CallEnded /\ outcome = "ok"
    /\ before.kind = "doc" /\ Len(before.models) = 2
    /\ Positions(before.models, model_metadata.id) = {1, 2}
    /\ file.models[1] = model_metadata
    /\ file.models[2] = before.models[2]
    /\ file.models[2] # model_metadata
    /\ before.models[1] # model_metadata

\* Both processes' calls have returned.
BothReturned ==
    /\ Phase1 = "done" /\ outcome = "ok"
    /\ writer2.pc = "idle" /\ writer2.outcome = "ok"

\* The two upserts are for different ids.
DifferentIds ==
    /\ model_metadata.id # NoId
    /\ writer2.model_metadata.id # NoId
    /\ model_metadata.id # writer2.model_metadata.id

\* Both processes read the file before either opened it for writing.
BothReadFirst ==
    /\ writer2.atRead \in {"new", "read", "update", "open"}
    /\ writer2.atOpen \in {"update", "open", "dump", "done"}

\* One call ran from its read to its close before the other's read.
Serialized ==
    \/ writer2.atRead = "done"
    \/ writer2.atClose \in {"new", "read"}

\* Both files were open for writing at the same time.
WritesOverlapped ==
    /\ writer2.atOpen # "done"
    /\ writer2.atClose \in {"dump", "done"}

\* The second process closed the file last.
Writer2Last == writer2.atClose = "done"

\* The entry, and the list read, of the process that closed last and of the
\* other one.
LaterEntry == IF Writer2Last THEN writer2.model_metadata ELSE model_metadata

EarlierEntry == IF Writer2Last THEN model_metadata ELSE writer2.model_metadata

LaterRead ==
    IF Writer2Last
    THEN (IF writer2.before.kind = "doc" THEN writer2.before.models ELSE <<>>)
    ELSE ModelsBefore

Elems(models) == {models[i] : i \in DOMAIN models}

-----------------------------------------------------------------------------
(* convert_opus_to_coreml.py: the decoder's input shapes *)

\* The last ct.convert call was the decoder's.
DecoderDeclared ==
    /\ prog = "convert_opus"
    /\ Len(inputs) = 3
    /\ inputs[1].name = "decoder_input_ids"

\* C17: the decoder's token-id input is declared with a fixed sequence length
\* of exactly 1, and its encoder-hidden-state input with the encoder's
\* sequence range and a trailing dimension equal to the hidden width.
C17_DecoderShapePolicy ==
    DecoderDeclared =>
        /\ inputs[1].seq.lower = 1
        /\ inputs[1].seq.upper = 1
        /\ inputs[2].name = "encoder_hidden_states"
        /\ inputs[2].seq = encoder_inputs[1].seq
        /\ inputs[2].last = "d_model"

\* C17, amended: the decoder's token-id input is declared with the same
\* bounded range 1..512 as the encoder's sequence dimension (the length 1 is
\* only that of the traced example, which lies in the range); the
\* encoder-hidden-state input has that range and a trailing dimension equal
\* to the hidden width, and the encoder attention mask has that range.
C17_DecoderShapeRanges ==
    DecoderDeclared =>
        /\ inputs[1].seq.lower = 1
        /\ inputs[1].seq.upper = OpusMaxLength
        /\ inputs[1].seq = encoder_inputs[1].seq
        /\ inputs[1].last = "none"
        /\ inputs[1].seq.lower <= dummy_decoder_input_ids
        /\ dummy_decoder_input_ids <= inputs[1].seq.upper
        /\ inputs[2].name = "encoder_hidden_states"
        /\ inputs[2].seq = encoder_inputs[1].seq
        /\ inputs[2].last = "d_model"
        /\ inputs[3].name = "encoder_attention_mask"
        /\ inputs[3].seq = encoder_inputs[1].seq

\* The decoder has been converted with its descriptors and is about to be
\* saved.
C17_Witness ==
    /\ DecoderDeclared
    /\ stage = "save_decoder"
    /\ Completed("convert_decoder")

-----------------------------------------------------------------------------
(* test_conversion.py: the advisory checks *)

\* The artifact loaded.
Loaded == Completed("test_model_loading")

\* The synthetic inference raised.
InferenceRaised == <<0, "test_inference">> \in raised

\* C18: whenever the artifact loads, test_conversion ends with exit status 0
\* whether or not the synthetic inference raises, and after an inference
\* failure the compute-unit probe and the memory estimate still run; in
\* validate_model of convert_gemma a failed prediction alone does not fail
\* the run.
C18_InferenceFailureAdvisory ==
    /\ (prog = "test_conversion" /\ Loaded) =>
           /\ stage = "exit" => exitCode = ExitOk
           /\ InferenceRaised =>
                  /\ stage \in {"test_compute_units", "estimate_memory_usage",
                                "summary", "exit"}
                  /\ tests[1] < tests[2]
                  /\ stage = "exit" =>
                         /\ InRan("test_compute_units")
                         /\ InRan("estimate_memory_usage")
                         /\ Len(probe) = Len(compute_units)
    /\ (prog = "convert_gemma" /\ raised = {<<0, "validate_predict">>}) =>
           /\ stage \in {"success", "exit"}
           /\ stage = "exit" => exitCode = ExitOk

\* test_conversion has ended after its synthetic inference raised.
C18_Witness ==
    /\ prog = "test_conversion" /\ stage = "exit"
    /\ Loaded /\ InferenceRaised
    /\ exitCode = ExitOk
    /\ Len(probe) = Len(compute_units)

\* C19: the probe loads the artifact under the four configurations in the
\* order CPU only, CPU and GPU, CPU and Neural Engine, all, records one
\* result for each, goes on to the next configuration after a failure, and
\* itself passes whatever the results are.
C19_ComputeUnitProbeIndependent ==
    prog = "test_conversion" =>
        /\ Len(compute_units) = 4
        /\ Len(probe) <= Len(compute_units)
        /\ \A k \in DOMAIN probe : probe[k].name = compute_units[k]
        /\ <<0, "test_compute_units">> \notin raised
        /\ InRan("test_compute_units") =>
               /\ Len(probe) = Len(compute_units)
               /\ stage = "exit" => exitCode = ExitOk
        /\ stage = "exit" /\ Loaded =>
               /\ InRan("test_compute_units")
               /\ tests[1] >= tests[2] - 1

\* The probe has run to its end although the first and the third
\* configuration failed.
C19_Witness ==
    /\ prog = "test_conversion" /\ stage = "exit"
    /\ Len(probe) = 4
    /\ ~probe[1].supported /\ probe[2].supported
    /\ ~probe[3].supported /\ probe[4].supported
    /\ exitCode = ExitOk

====
